---- MODULE Spec2Model ----
(***************************************************************************)
(* A model of the tx2-core ECS runtime: the entity id counter, the World   *)
(* (entity table, component store, query cache) and the system scheduler.  *)
(* Strings that the code builds or searches (component type ids, query     *)
(* cache keys) are sequences of one-character strings, so that key         *)
(* building, sorting and substring search are computed as the code does.   *)
(***************************************************************************)
EXTENDS Integers, Sequences, FiniteSets, TLC

VARIABLES
    NEXT_ENTITY_ID,   \* entity.rs: static mut NEXT_ENTITY_ID
    entities,         \* World.entities (the keys; an Entity is its id)
    components,       \* ComponentStore.components: entity -> type id -> list
    component_index,  \* ComponentStore.component_index: type id -> entity set
    queries,          \* QueryCache.queries: key -> Query
    ret,              \* what the last World or store call returned
    systems,          \* SystemScheduler.systems: id -> System
    execution_order,  \* SystemScheduler.execution_order: phase -> ids
    dirty,            \* SystemScheduler.dirty
    last_call,        \* what the last scheduler call did
    twin_order,       \* the cached order of a second scheduler fed the same calls
    history           \* per system, the outcomes of its System::run calls

world_vars == <<NEXT_ENTITY_ID, entities, components, component_index, queries, ret>>
sched_vars == <<systems, execution_order, dirty, last_call, twin_order, history>>
vars == <<NEXT_ENTITY_ID, entities, components, component_index, queries, ret,
          systems, execution_order, dirty, last_call, twin_order, history>>

(***************************************************************************)
(* Bounds of the model.                                                    *)
(***************************************************************************)
\* entity ids are 1..MaxEntityId; the id counter (a u32) stops there, far
\* below the value at which it would wrap
MaxEntityId == 2
\* the component store holds at most this many component instances
MaxComponents == 3
\* a consecutive-failure counter (a u32) is not driven beyond this value
MaxFailures == 4
\* the recorded history of a system's runs is at most this long
MaxHistory == 5

EntityIds == 1..MaxEntityId

(***************************************************************************)
(* Maps (HashMap) as functions with a finite domain.                       *)
(***************************************************************************)
EmptyMap == << >>

MapPut(m, k, v) == [x \in (DOMAIN m) \cup {k} |-> IF x = k THEN v ELSE m[x]]

MapRemove(m, k) == [x \in (DOMAIN m) \ {k} |-> m[x]]

(***************************************************************************)
(* Strings as sequences of characters.                                     *)
(***************************************************************************)
\* byte values of the characters the model's strings are made of
CharCode(c) ==
    CASE c = "," -> 44
      [] c = ":" -> 58
      [] c = "A" -> 65
      [] c = "B" -> 66
      [] c = "a" -> 97
      [] c = "e" -> 101
      [] c = "l" -> 108
      [] c = "n" -> 110
      [] c = "o" -> 111
      [] c = "y" -> 121
      [] c = "|" -> 124

\* String's Ord: lexicographic on bytes, a proper prefix first
RECURSIVE StrLess(_, _)
StrLess(s, t) ==
    IF t = << >> THEN FALSE
    ELSE IF s = << >> THEN TRUE
    ELSE IF CharCode(Head(s)) # CharCode(Head(t))
         THEN CharCode(Head(s)) < CharCode(Head(t))
         ELSE StrLess(Tail(s), Tail(t))

\* str::contains: pat occurs in s as a contiguous substring
Contains(s, pat) ==
    \E i \in 0..Len(s) :
        /\ i + Len(pat) <= Len(s)
        /\ \A j \in 1..Len(pat) : s[i + j] = pat[j]

\* [String]::join
RECURSIVE Join(_, _)
Join(parts, sep) ==
    IF parts = << >> THEN << >>
    ELSE IF Len(parts) = 1 THEN parts[1]
    ELSE parts[1] \o sep \o Join(Tail(parts), sep)

\* insertion of one string into a sorted list, after its equals
RECURSIVE InsertSorted(_, _)
InsertSorted(x, sorted) ==
    IF sorted = << >> THEN <<x>>
    ELSE IF StrLess(x, Head(sorted)) THEN <<x>> \o sorted
    ELSE <<Head(sorted)>> \o InsertSorted(x, Tail(sorted))

\* Vec<String>::sort
RECURSIVE Sort(_)
Sort(list) ==
    IF list = << >> THEN << >>
    ELSE InsertSorted(list[Len(list)], Sort(SubSeq(list, 1, Len(list) - 1)))

\* the elements of a list
Range(list) == {list[i] : i \in 1..Len(list)}

(***************************************************************************)
(* Component store (component.rs).                                         *)
(***************************************************************************)
\* the store as a value: [components, component_index]
Store(c, ix) == [components |-> c, component_index |-> ix]

\* an add that puts the component at the front of the list
store_add_front(st, entity_id, component_id, payload) ==
    LET entity_components ==
            IF entity_id \in DOMAIN st.components
            THEN st.components[entity_id] ELSE EmptyMap
        list ==
            IF component_id \in DOMAIN entity_components
            THEN entity_components[component_id] ELSE << >>
        index ==
            IF component_id \in DOMAIN st.component_index
            THEN st.component_index[component_id] ELSE {}
    IN  Store(MapPut(st.components, entity_id,
                     MapPut(entity_components, component_id,
                            <<payload>> \o list)),
              MapPut(st.component_index, component_id, index \cup {entity_id}))

\* ComponentStore::add
store_add(st, entity_id, component_id, payload) ==
    LET entity_components ==
            IF entity_id \in DOMAIN st.components
            THEN st.components[entity_id] ELSE EmptyMap
        list ==
            IF component_id \in DOMAIN entity_components
            THEN entity_components[component_id] ELSE << >>
        index ==
            IF component_id \in DOMAIN st.component_index
            THEN st.component_index[component_id] ELSE {}
    IN  Store(MapPut(st.components, entity_id,
                     MapPut(entity_components, component_id, Append(list, payload))),
              MapPut(st.component_index, component_id, index \cup {entity_id}))

\* an index update that keeps the entry of a set that becomes empty
index_drop_keeps_entry(ix, entity_id, component_id) ==
    IF component_id \in DOMAIN ix
    THEN MapPut(ix, component_id, ix[component_id] \ {entity_id})
    ELSE ix

\* the reverse index with entity_id dropped from component_id's set, the
\* entry removed when the set becomes empty
index_drop(ix, entity_id, component_id) ==
    IF component_id \in DOMAIN ix
    THEN LET index == ix[component_id] \ {entity_id}
         IN  IF index = {} THEN MapRemove(ix, component_id)
             ELSE MapPut(ix, component_id, index)
    ELSE ix

\* a remove that takes the list out of the forward map and leaves the reverse
\* index as it was
store_remove_keeps_index(st, entity_id, component_id) ==
    IF /\ entity_id \in DOMAIN st.components
       /\ component_id \in DOMAIN st.components[entity_id]
    THEN [store |-> Store(MapPut(st.components, entity_id,
                                 MapRemove(st.components[entity_id], component_id)),
                          st.component_index),
          removed |-> TRUE]
    ELSE [store |-> st, removed |-> FALSE]

\* a remove that takes one instance out of the list, and the list with its
\* last instance
store_remove_one_instance(st, entity_id, component_id) ==
    IF /\ entity_id \in DOMAIN st.components
       /\ component_id \in DOMAIN st.components[entity_id]
    THEN IF Len(st.components[entity_id][component_id]) > 1
         THEN [store |-> Store(MapPut(st.components, entity_id,
                                      MapPut(st.components[entity_id], component_id,
                                             Tail(st.components[entity_id][component_id]))),
                               st.component_index),
               removed |-> TRUE]
         ELSE [store |-> Store(MapPut(st.components, entity_id,
                                      MapRemove(st.components[entity_id], component_id)),
                               index_drop(st.component_index, entity_id, component_id)),
               removed |-> TRUE]
    ELSE [store |-> st, removed |-> FALSE]

\* ComponentStore::remove: [store, removed]
store_remove(st, entity_id, component_id) ==
    IF /\ entity_id \in DOMAIN st.components
       /\ component_id \in DOMAIN st.components[entity_id]
    THEN [store |-> Store(MapPut(st.components, entity_id,
                                 MapRemove(st.components[entity_id], component_id)),
                          index_drop(st.component_index, entity_id, component_id)),
          removed |-> TRUE]
    ELSE [store |-> st, removed |-> FALSE]

\* Option<&T>: what a typed lookup returns
NotFound == [some |-> FALSE, value |-> "none"]

Found(v) == [some |-> TRUE, value |-> v]

\* a lookup that returns the last element of the list
store_get_last(st, entity_id, component_id) ==
    IF /\ entity_id \in DOMAIN st.components
       /\ component_id \in DOMAIN st.components[entity_id]
       /\ st.components[entity_id][component_id] # << >>
    THEN Found(st.components[entity_id][component_id]
                   [Len(st.components[entity_id][component_id])])
    ELSE NotFound

\* ComponentStore::get::<T>, component_id the type name of T
store_get(st, entity_id, component_id) ==
    IF /\ entity_id \in DOMAIN st.components
       /\ component_id \in DOMAIN st.components[entity_id]
       /\ st.components[entity_id][component_id] # << >>
    THEN Found(Head(st.components[entity_id][component_id]))
    ELSE NotFound

\* ComponentStore::get_all_by_type::<T>, component_id the type name of T
store_get_all_by_type(st, entity_id, component_id) ==
    IF /\ entity_id \in DOMAIN st.components
       /\ component_id \in DOMAIN st.components[entity_id]
    THEN st.components[entity_id][component_id]
    ELSE << >>

\* ComponentStore::has
store_has(st, entity_id, component_id) ==
    /\ entity_id \in DOMAIN st.components
    /\ component_id \in DOMAIN st.components[entity_id]

\* ComponentStore::get_entities_with_component
get_entities_with_component(st, component_id) ==
    IF component_id \in DOMAIN st.component_index
    THEN st.component_index[component_id] ELSE {}

\* the loop of remove_all_components over the removed entity's type ids
RECURSIVE index_drop_all(_, _, _)
index_drop_all(ix, entity_id, ids) ==
    IF ids = {} THEN ix
    ELSE LET component_id == CHOOSE c \in ids : TRUE
         IN  index_drop_all(index_drop(ix, entity_id, component_id),
                            entity_id, ids \ {component_id})

\* a remove_all_components that leaves the reverse index as it was
store_remove_all_components_keeps_index(st, entity_id) ==
    IF entity_id \in DOMAIN st.components
    THEN Store(MapRemove(st.components, entity_id), st.component_index)
    ELSE st

\* ComponentStore::remove_all_components
store_remove_all_components(st, entity_id) ==
    IF entity_id \in DOMAIN st.components
    THEN Store(MapRemove(st.components, entity_id),
               index_drop_all(st.component_index, entity_id,
                              DOMAIN st.components[entity_id]))
    ELSE st

\* ComponentStore::clear
store_clear == Store(EmptyMap, EmptyMap)

\* ComponentStore::get_all_entities: the keys of the forward map
store_get_all_entities(st) == DOMAIN st.components

\* the number of component instances an entity holds
RECURSIVE CountLists(_, _)
CountLists(m, ids) ==
    IF ids = {} THEN 0
    ELSE LET c == CHOOSE x \in ids : TRUE
         IN  Len(m[c]) + CountLists(m, ids \ {c})

\* the number of component instances the store holds
RECURSIVE CountInstances(_, _)
CountInstances(c, es) ==
    IF es = {} THEN 0
    ELSE LET e == CHOOSE x \in es : TRUE
         IN  CountLists(c[e], DOMAIN c[e]) + CountInstances(c, es \ {e})

(***************************************************************************)
(* Queries and the query cache (query.rs).                                 *)
(***************************************************************************)
Descriptor(all, any, none) == [all |-> all, any |-> any, none |-> none]

\* Option<HashSet<EntityId>>
None == [some |-> FALSE, set |-> {}]

Some(s) == [some |-> TRUE, set |-> s]

\* the filters Query::new builds: the non-empty clauses, All, Any, None
query_filters(descriptor) ==
    (IF descriptor.all # << >>
     THEN <<[kind |-> "All", components |-> descriptor.all]>> ELSE << >>)
    \o (IF descriptor.any # << >>
        THEN <<[kind |-> "Any", components |-> descriptor.any]>> ELSE << >>)
    \o (IF descriptor.none # << >>
        THEN <<[kind |-> "None", components |-> descriptor.none]>> ELSE << >>)

\* a Query::new that takes a descriptor without a clause
query_new_never_panics(descriptor) == FALSE

\* Query::new panics when no clause is given
query_new_panics(descriptor) == query_filters(descriptor) = << >>

\* Query::new
query_new(descriptor) ==
    [filters |-> query_filters(descriptor), cached_results |-> None, dirty |-> TRUE]

\* Query::matches
matches(filters, entity_id, st) ==
    \A i \in 1..Len(filters) :
        LET cs == Range(filters[i].components)
        IN  CASE filters[i].kind = "All" ->
                    \A c \in cs : store_has(st, entity_id, c)
              [] filters[i].kind = "Any" ->
                    \E c \in cs : store_has(st, entity_id, c)
              [] filters[i].kind = "None" ->
                    ~ \E c \in cs : store_has(st, entity_id, c)

\* the union loop of get_candidate_entities over the ids of the Any filters
any_candidates(filters, st) ==
    UNION {UNION {get_entities_with_component(st, filters[i].components[j]) :
                    j \in 1..Len(filters[i].components)} :
             i \in {k \in 1..Len(filters) : filters[k].kind = "Any"}}

\* the narrowing loop of get_candidate_entities over one All filter's ids
RECURSIVE narrow(_, _, _)
narrow(candidates, ids, st) ==
    IF ids = << >> THEN candidates
    ELSE LET es == get_entities_with_component(st, Head(ids))
         IN  narrow(IF candidates.some THEN Some(candidates.set \cap es)
                    ELSE Some(es),
                    Tail(ids), st)

\* the narrowing loop over all the All filters
RECURSIVE narrow_all(_, _, _)
narrow_all(candidates, filters, st) ==
    IF filters = << >> THEN candidates
    ELSE narrow_all(IF Head(filters).kind = "All"
                    THEN narrow(candidates, Head(filters).components, st)
                    ELSE candidates,
                    Tail(filters), st)

\* Query::get_candidate_entities
get_candidate_entities(filters, st) ==
    LET seeded ==
            IF \E i \in 1..Len(filters) : filters[i].kind = "Any"
            THEN Some(any_candidates(filters, st)) ELSE None
        narrowed == narrow_all(seeded, filters, st)
    IN  IF narrowed.some THEN narrowed.set ELSE store_get_all_entities(st)

\* the result a recomputation yields
query_compute(filters, st) ==
    {e \in get_candidate_entities(filters, st) : matches(filters, e, st)}

\* a Query::execute whose answer from the cache marks the query dirty again
query_execute_hit_marks_dirty(q, st) ==
    IF ~q.dirty /\ q.cached_results.some
    THEN [query |-> [q EXCEPT !.dirty = TRUE], results |-> q.cached_results.set]
    ELSE LET results == query_compute(q.filters, st)
         IN  [query |-> [q EXCEPT !.cached_results = Some(results), !.dirty = FALSE],
              results |-> results]

\* Query::execute: [query, results]
query_execute(q, st) ==
    IF ~q.dirty /\ q.cached_results.some
    THEN [query |-> q, results |-> q.cached_results.set]
    ELSE LET results == query_compute(q.filters, st)
         IN  [query |-> [q EXCEPT !.cached_results = Some(results), !.dirty = FALSE],
              results |-> results]

\* a clause of the key with the ids in the order given
key_part_unsorted(name, ids) == name \o <<":">> \o Join(ids, <<",">>)

\* one clause of the key: the name, a colon, the sorted ids joined by commas
key_part(name, ids) == name \o <<":">> \o Join(Sort(ids), <<",">>)

\* QueryCache::get_key
get_key(descriptor) ==
    Join((IF descriptor.all # << >>
          THEN <<key_part(<<"a", "l", "l">>, descriptor.all)>> ELSE << >>)
         \o (IF descriptor.any # << >>
             THEN <<key_part(<<"a", "n", "y">>, descriptor.any)>> ELSE << >>)
         \o (IF descriptor.none # << >>
             THEN <<key_part(<<"n", "o", "n", "e">>, descriptor.none)>> ELSE << >>),
         <<"|">>)

\* QueryCache::get: the cache with the descriptor's query in it
cache_get(qs, descriptor) ==
    IF get_key(descriptor) \in DOMAIN qs THEN qs
    ELSE MapPut(qs, get_key(descriptor), query_new(descriptor))

\* QueryCache::mark_all_dirty
mark_all_dirty(qs) == [k \in DOMAIN qs |-> [qs[k] EXCEPT !.dirty = TRUE]]

\* a mark_dirty_for_component that marks every cached query
mark_dirty_for_component_marks_all(qs, component_id) ==
    [k \in DOMAIN qs |-> [qs[k] EXCEPT !.dirty = TRUE]]

\* QueryCache::mark_dirty_for_component
mark_dirty_for_component(qs, component_id) ==
    [k \in DOMAIN qs |->
        IF Contains(k, component_id) THEN [qs[k] EXCEPT !.dirty = TRUE] ELSE qs[k]]

(***************************************************************************)
(* Inputs of the World and store calls.                                    *)
(***************************************************************************)
A == <<"A">>

B == <<"B">>

\* a type id with a comma in it, as type_name gives for a generic type
AB == <<"A", ",", "B">>

\* the type ids of the components that are added
ComponentIds == {A, B}

\* component values
Payloads == {"p", "q"}

TheStore == Store(components, component_index)

\* what a call leaves in ret: the call and whether it panicked, and for some
\* calls the argument and the value returned, each filed under the call's name
Ret(op, arg, value, panicked) ==
    [op |-> op, arg |-> (op :> arg), value |-> (op :> value), panicked |-> panicked]

Returned(panicked) == Ret("call", "none", "none", panicked)

(***************************************************************************)
(* Entity ids (entity.rs).                                                 *)
(***************************************************************************)
\* reset_entity_id_counter
reset_entity_id_counter(start) ==
    /\ NEXT_ENTITY_ID' = start
    /\ ret' = Returned(FALSE)
    /\ UNCHANGED <<entities, components, component_index, queries>>
    /\ UNCHANGED sched_vars

(***************************************************************************)
(* World (world.rs).                                                       *)
(***************************************************************************)
\* World::create_entity, with Entity::new and create_entity_id
create_entity ==
    /\ NEXT_ENTITY_ID <= MaxEntityId
    /\ NEXT_ENTITY_ID' = NEXT_ENTITY_ID + 1
    /\ entities' = entities \cup {NEXT_ENTITY_ID}
    /\ queries' = mark_all_dirty(queries)
    /\ ret' = Ret("create_entity", "none", NEXT_ENTITY_ID, FALSE)
    /\ UNCHANGED <<components, component_index>>
    /\ UNCHANGED sched_vars

\* a create_entity_with_id that does not look whether the id is live
create_entity_with_id_overwrites(id) ==
    /\ entities' = entities \cup {id}
    /\ queries' = mark_all_dirty(queries)
    /\ ret' = Ret("create_entity_with_id", "none", "none", FALSE)
    /\ UNCHANGED <<NEXT_ENTITY_ID, components, component_index>>
    /\ UNCHANGED sched_vars

\* World::create_entity_with_id
create_entity_with_id(id) ==
    /\ IF id \in entities
       THEN /\ ret' = Ret("create_entity_with_id", "none", "none", TRUE)
            /\ UNCHANGED <<entities, queries>>
       ELSE /\ entities' = entities \cup {id}
            /\ queries' = mark_all_dirty(queries)
            /\ ret' = Ret("create_entity_with_id", "none", "none", FALSE)
    /\ UNCHANGED <<NEXT_ENTITY_ID, components, component_index>>
    /\ UNCHANGED sched_vars

\* World::destroy_entity; ret takes what it returned
destroy_entity(entity_id) ==
    /\ IF entity_id \in entities
       THEN LET st == store_remove_all_components(TheStore, entity_id)
            IN  /\ entities' = entities \ {entity_id}
                /\ components' = st.components
                /\ component_index' = st.component_index
                /\ queries' = mark_all_dirty(queries)
       ELSE UNCHANGED <<entities, components, component_index, queries>>
    /\ ret' = Ret("destroy_entity", entity_id, entity_id \in entities, FALSE)
    /\ UNCHANGED NEXT_ENTITY_ID
    /\ UNCHANGED sched_vars

\* an add_component that does not look for the entity
add_component_unchecked(entity_id, component_id, payload) ==
    /\ LET st == store_add(TheStore, entity_id, component_id, payload)
       IN  /\ CountInstances(components, DOMAIN components) < MaxComponents
           /\ components' = st.components
           /\ component_index' = st.component_index
           /\ queries' = mark_dirty_for_component(queries, component_id)
           /\ ret' = Returned(FALSE)
    /\ UNCHANGED <<NEXT_ENTITY_ID, entities>>
    /\ UNCHANGED sched_vars

\* World::add_component
add_component(entity_id, component_id, payload) ==
    /\ IF entity_id \notin entities
       THEN /\ ret' = Returned(TRUE)
            /\ UNCHANGED <<components, component_index, queries>>
       ELSE LET st == store_add(TheStore, entity_id, component_id, payload)
            IN  /\ CountInstances(components, DOMAIN components) < MaxComponents
                /\ components' = st.components
                /\ component_index' = st.component_index
                /\ queries' = mark_dirty_for_component(queries, component_id)
                /\ ret' = Returned(FALSE)
    /\ UNCHANGED <<NEXT_ENTITY_ID, entities>>
    /\ UNCHANGED sched_vars

\* a remove_component that marks the queries whether it removed or not
remove_component_always_marks(entity_id, component_id) ==
    LET r == store_remove(TheStore, entity_id, component_id)
    IN  /\ components' = r.store.components
        /\ component_index' = r.store.component_index
        /\ queries' = mark_dirty_for_component(queries, component_id)
        /\ ret' = Ret("remove_component", <<entity_id, component_id>>, r.removed, FALSE)
        /\ UNCHANGED <<NEXT_ENTITY_ID, entities>>
        /\ UNCHANGED sched_vars

\* World::remove_component
remove_component(entity_id, component_id) ==
    LET r == store_remove(TheStore, entity_id, component_id)
    IN  /\ components' = r.store.components
        /\ component_index' = r.store.component_index
        /\ queries' = IF r.removed
                      THEN mark_dirty_for_component(queries, component_id)
                      ELSE queries
        /\ ret' = Ret("remove_component", <<entity_id, component_id>>, r.removed, FALSE)
        /\ UNCHANGED <<NEXT_ENTITY_ID, entities>>
        /\ UNCHANGED sched_vars

\* World::query, with QueryCache::get and Query::execute
query(descriptor) ==
    /\ IF get_key(descriptor) \notin DOMAIN queries /\ query_new_panics(descriptor)
       THEN /\ ret' = Ret("query", descriptor, {}, TRUE)
            /\ UNCHANGED queries
       ELSE LET qs  == cache_get(queries, descriptor)
                key == get_key(descriptor)
                r   == query_execute(qs[key], TheStore)
            IN  /\ queries' = MapPut(qs, key, r.query)
                /\ ret' = Ret("query", descriptor, r.results, FALSE)
    /\ UNCHANGED <<NEXT_ENTITY_ID, entities, components, component_index>>
    /\ UNCHANGED sched_vars

\* World::clear
clear ==
    /\ entities' = {}
    /\ components' = store_clear.components
    /\ component_index' = store_clear.component_index
    /\ queries' = EmptyMap
    /\ ret' = Returned(FALSE)
    /\ UNCHANGED NEXT_ENTITY_ID
    /\ UNCHANGED sched_vars

(***************************************************************************)
(* Direct calls of the component store, without a World around it.         *)
(***************************************************************************)
\* a call of ComponentStore::add
store_add_call(entity_id, component_id, payload) ==
    /\ CountInstances(components, DOMAIN components) < MaxComponents
    /\ LET st == store_add(TheStore, entity_id, component_id, payload)
       IN  /\ components' = st.components
           /\ component_index' = st.component_index
    /\ ret' = Returned(FALSE)
    /\ UNCHANGED <<NEXT_ENTITY_ID, entities, queries>>
    /\ UNCHANGED sched_vars

\* a call of ComponentStore::remove; ret takes what it returned and, as its
\* argument, the list it took out of the entity's map
store_remove_call(entity_id, component_id) ==
    /\ LET r == store_remove(TheStore, entity_id, component_id)
       IN  /\ components' = r.store.components
           /\ component_index' = r.store.component_index
           /\ ret' = Ret("remove",
                         store_get_all_by_type(TheStore, entity_id, component_id),
                         r.removed, FALSE)
    /\ UNCHANGED <<NEXT_ENTITY_ID, entities, queries>>
    /\ UNCHANGED sched_vars

\* a call of ComponentStore::remove_all_components
store_remove_all_components_call(entity_id) ==
    /\ LET st == store_remove_all_components(TheStore, entity_id)
       IN  /\ components' = st.components
           /\ component_index' = st.component_index
    /\ ret' = Returned(FALSE)
    /\ UNCHANGED <<NEXT_ENTITY_ID, entities, queries>>
    /\ UNCHANGED sched_vars

\* a call of ComponentStore::get_entities_with_component on the World's store
get_entities_with_component_call(component_id) ==
    /\ ret' = Ret("get_entities_with_component", component_id,
                  get_entities_with_component(TheStore, component_id), FALSE)
    /\ UNCHANGED <<NEXT_ENTITY_ID, entities, components, component_index, queries>>
    /\ UNCHANGED sched_vars

\* a call of ComponentStore::clear
store_clear_call ==
    /\ components' = store_clear.components
    /\ component_index' = store_clear.component_index
    /\ ret' = Returned(FALSE)
    /\ UNCHANGED <<NEXT_ENTITY_ID, entities, queries>>
    /\ UNCHANGED sched_vars

(***************************************************************************)
(* Systems and the scheduler (system.rs, error.rs).                        *)
(***************************************************************************)
\* recompute_execution_order: the phases array
Phases == <<"Init", "FixedUpdate", "Update", "LateUpdate", "Cleanup">>

\* System::new: a registered system, from what the caller gives
system_new(input) ==
    [phases |-> input.phases, priority |-> input.priority,
     run_before |-> input.run_before, run_after |-> input.run_after,
     enabled |-> TRUE, consecutive_failures |-> 0,
     on_error |-> input.on_error, behaviour |-> input.behaviour]

\* the failure count at which the default handler disables
DisableThreshold == 3

\* a default handler that disables one failure later
default_error_handler_late(consecutive_failures) ==
    IF consecutive_failures > DisableThreshold THEN "Disable" ELSE "Ignore"

\* default_error_handler
default_error_handler(consecutive_failures) ==
    IF consecutive_failures >= DisableThreshold THEN "Disable" ELSE "Ignore"

\* the strategy the system's handler returns: its own when set, else the default
error_strategy(system, consecutive_failures) ==
    CASE system.on_error = "none" -> default_error_handler(consecutive_failures)
      [] system.on_error = "disable" -> "Disable"
      [] system.on_error = "ignore" -> "Ignore"
      [] system.on_error = "retry" -> "Retry"

\* the name System::run gives a phase in the failure context
phase_str(phase) ==
    CASE phase = "Init" -> "init"
      [] phase = "FixedUpdate" -> "fixedUpdate"
      [] phase = "Update" -> "update"
      [] phase = "LateUpdate" -> "lateUpdate"
      [] phase = "Cleanup" -> "cleanup"

\* what self.phases.iter().next() may yield for a system: the phase its set
\* of phases iterates first, any of them, and Update for a system without one
first_phases(system) == IF system.phases = {} THEN {"Update"} ELSE system.phases

\* no failure context
NoContext == [system_id |-> "none", phase |-> "none", consecutive_failures |-> 0]

\* the SystemErrorContext System::run hands to the handler when the behaviour
\* of the system fails, first being the phase its set of phases iterates first
error_ctx(system_id, system, first) ==
    [system_id |-> system_id, phase |-> phase_str(first),
     consecutive_failures |-> system.consecutive_failures + 1]

\* System::run when the behaviour fails
system_run_err(system) ==
    LET failures == system.consecutive_failures + 1
        strategy == error_strategy(system, failures)
    IN  [system EXCEPT !.consecutive_failures = failures,
                       !.enabled = IF strategy = "Disable" THEN FALSE ELSE @]

\* a run that leaves the failure counter alone when the behaviour succeeds
system_run_ok_keeps_count(system) == system

\* System::run when the behaviour succeeds
system_run_ok(system) == [system EXCEPT !.consecutive_failures = 0]

\* a run that does not look at the enabled flag
system_run_ignores_enabled(system, ok) ==
    IF ok THEN system_run_ok(system) ELSE system_run_err(system)

\* System::run; ok tells whether the behaviour, if invoked, succeeds
system_run(system, ok) ==
    IF ~system.enabled THEN system
    ELSE IF ok THEN system_run_ok(system)
    ELSE system_run_err(system)

\* the permutations of a set, as sequences: the orders a HashMap or HashSet
\* may iterate in
Perms(S) == {p \in [1..Cardinality(S) -> S] : Range(p) = S}

\* for every system, an iteration order of its run_after set
RECURSIVE IterOrders(_, _)
IterOrders(sys, ids) ==
    IF ids = {} THEN {EmptyMap}
    ELSE LET id == CHOOSE x \in ids : TRUE
         IN  {MapPut(f, id, p) : f \in IterOrders(sys, ids \ {id}),
                                 p \in Perms(sys[id].run_after)}

\* the state of one topological sort
SortState(visited, visiting, sorted, panic) ==
    [visited |-> visited, visiting |-> visiting, sorted |-> sorted, panic |-> panic]

\* SystemScheduler::visit; so[id] is the iteration order of id's run_after
RECURSIVE visit(_, _, _, _)
RECURSIVE visit_after(_, _, _, _)
visit_after(after_ids, st, sys, so) ==
    IF after_ids = << >> \/ st.panic THEN st
    ELSE visit_after(Tail(after_ids),
                     IF Head(after_ids) \in DOMAIN sys
                     THEN visit(Head(after_ids), st, sys, so) ELSE st,
                     sys, so)

\* a visit that returns from a system it is already visiting
visit_ignores_cycle(system_id, st, sys, so) ==
    IF st.panic \/ system_id \in st.visited \/ system_id \in st.visiting THEN st
    ELSE LET st1 == visit_after(so[system_id],
                                [st EXCEPT !.visiting = @ \cup {system_id}], sys, so)
         IN  IF \E before_id \in sys[system_id].run_before :
                    before_id \in DOMAIN sys /\ before_id \notin st1.visited
             THEN [st1 EXCEPT !.visiting = @ \ {system_id}]
             ELSE [st1 EXCEPT !.visiting = @ \ {system_id},
                              !.visited = @ \cup {system_id},
                              !.sorted = Append(@, system_id)]

visit(system_id, st, sys, so) ==
    IF st.panic \/ system_id \in st.visited THEN st
    ELSE IF system_id \in st.visiting THEN [st EXCEPT !.panic = TRUE]
    ELSE LET st1 == visit_after(so[system_id],
                                [st EXCEPT !.visiting = @ \cup {system_id}], sys, so)
         IN  IF st1.panic THEN st1
             ELSE IF \E before_id \in sys[system_id].run_before :
                        before_id \in DOMAIN sys /\ before_id \notin st1.visited
             THEN [st1 EXCEPT !.visiting = @ \ {system_id}]
             ELSE [st1 EXCEPT !.visiting = @ \ {system_id},
                              !.visited = @ \cup {system_id},
                              !.sorted = Append(@, system_id)]

\* a sort_by that puts the lower priority first
RECURSIVE insert_by_priority_ascending(_, _, _)
insert_by_priority_ascending(id, sorted, sys) ==
    IF sorted = << >> THEN <<id>>
    ELSE IF sys[id].priority < sys[Head(sorted)].priority THEN <<id>> \o sorted
    ELSE <<Head(sorted)>> \o insert_by_priority_ascending(id, Tail(sorted), sys)

\* sort_by of topological_sort: stable, by priority descending
RECURSIVE insert_by_priority(_, _, _)
insert_by_priority(id, sorted, sys) ==
    IF sorted = << >> THEN <<id>>
    ELSE IF sys[id].priority > sys[Head(sorted)].priority THEN <<id>> \o sorted
    ELSE <<Head(sorted)>> \o insert_by_priority(id, Tail(sorted), sys)

RECURSIVE sort_by_priority(_, _)
sort_by_priority(ids, sys) ==
    IF ids = << >> THEN << >>
    ELSE insert_by_priority(ids[Len(ids)],
                            sort_by_priority(SubSeq(ids, 1, Len(ids) - 1), sys), sys)

\* the visiting loop of topological_sort
RECURSIVE visit_each(_, _, _, _)
visit_each(ids, st, sys, so) ==
    IF ids = << >> \/ st.panic THEN st
    ELSE visit_each(Tail(ids), visit(Head(ids), st, sys, so), sys, so)

\* SystemScheduler::topological_sort of the systems of one phase, given in the
\* order the map iterates
topological_sort(phase_systems, sys, so) ==
    visit_each(sort_by_priority(phase_systems, sys),
               SortState({}, {}, << >>, FALSE), sys, so)

\* the systems the filter of recompute_execution_order keeps for a phase, in
\* the map's iteration order mo
RECURSIVE phase_filter(_, _, _)
phase_filter(mo, phase, sys) ==
    IF mo = << >> THEN << >>
    ELSE (IF phase \in sys[Head(mo)].phases THEN <<Head(mo)>> ELSE << >>)
         \o phase_filter(Tail(mo), phase, sys)

\* the loop of recompute_execution_order from the i-th phase on
RECURSIVE recompute_from(_, _, _, _, _)
recompute_from(i, order, sys, mo, so) ==
    IF i > Len(Phases)
    THEN [execution_order |-> order, dirty |-> FALSE, panicked |-> FALSE]
    ELSE LET sorted == topological_sort(phase_filter(mo, Phases[i], sys), sys, so)
         IN  IF sorted.panic
             THEN [execution_order |-> order, dirty |-> TRUE, panicked |-> TRUE]
             ELSE recompute_from(i + 1, MapPut(order, Phases[i], sorted.sorted),
                                 sys, mo, so)

\* SystemScheduler::recompute_execution_order, the map iterating in order mo
\* and the run_after sets in the orders so
recompute_execution_order(sys, mo, so) == recompute_from(1, EmptyMap, sys, mo, so)

\* what recompute_execution_order may yield, over the iteration orders
possible_orders(sys) ==
    {recompute_execution_order(sys, mo, so) :
        mo \in Perms(DOMAIN sys), so \in IterOrders(sys, DOMAIN sys)}

RECURSIVE run_each(_, _, _, _, _)

\* a loop that a failure of a behaviour ends
run_each_stops_at_failure(ids, sys, invoked, failed, outs) ==
    IF ids = << >> THEN [systems |-> sys, invoked |-> invoked, failed |-> failed]
    ELSE LET id == Head(ids)
         IN  IF id \in DOMAIN sys
             THEN IF sys[id].enabled /\ ~outs[id]
                  THEN [systems |-> [sys EXCEPT ![id] = system_run(sys[id], outs[id])],
                        invoked |-> Append(invoked, id),
                        failed |-> failed \cup {id}]
                  ELSE run_each(Tail(ids),
                                [sys EXCEPT ![id] = system_run(sys[id], outs[id])],
                                IF sys[id].enabled THEN Append(invoked, id) ELSE invoked,
                                failed, outs)
             ELSE run_each(Tail(ids), sys, invoked, failed, outs)

\* the loop of execute_phase over the ids of the phase's order: the systems
\* after it, the ids whose behaviour was invoked and those whose behaviour failed
run_each(ids, sys, invoked, failed, outs) ==
    IF ids = << >> THEN [systems |-> sys, invoked |-> invoked, failed |-> failed]
    ELSE LET id == Head(ids)
         IN  IF id \in DOMAIN sys
             THEN run_each(Tail(ids),
                           [sys EXCEPT ![id] = system_run(sys[id], outs[id])],
                           IF sys[id].enabled THEN Append(invoked, id) ELSE invoked,
                           IF sys[id].enabled /\ ~outs[id] THEN failed \cup {id}
                           ELSE failed,
                           outs)
             ELSE run_each(Tail(ids), sys, invoked, failed, outs)

\* the outcomes the behaviours of the systems can have in one call
Outcomes(sys) ==
    {outs \in [DOMAIN sys -> BOOLEAN] :
        \A id \in DOMAIN sys :
            /\ sys[id].behaviour = "ok" => outs[id]
            /\ sys[id].behaviour = "fail" => ~outs[id]}

\* what a scheduler call leaves in last_call: the call, whether it panicked,
\* and for execute_phase the phase, the ids whose behaviour was invoked, in
\* order, and the ids whose behaviour failed
Call(op, panicked, phase, invoked, failed) ==
    [op |-> op, panicked |-> panicked, phase |-> phase, invoked |-> invoked,
     failed |-> failed]

\* the scheduler's cached order as a value, with its stale flag
Order(order, stale) == [execution_order |-> order, dirty |-> stale]

\* an add that replaces a system registered under the same id
add_overwrites(input) ==
    /\ systems' = MapPut(systems, input.id, system_new(input))
    /\ dirty' = TRUE
    /\ last_call' = Call("add", FALSE, "none", << >>, {})
    /\ UNCHANGED execution_order
    /\ UNCHANGED world_vars

\* SystemScheduler::add
add(input) ==
    /\ IF input.id \in DOMAIN systems
       THEN /\ last_call' = Call("add", TRUE, "none", << >>, {})
            /\ UNCHANGED <<systems, dirty>>
       ELSE /\ systems' = MapPut(systems, input.id, system_new(input))
            /\ dirty' = TRUE
            /\ last_call' = Call("add", FALSE, "none", << >>, {})
    /\ UNCHANGED execution_order
    /\ UNCHANGED world_vars

\* a remove that leaves the cached order in use
remove_keeps_order(system_id) ==
    /\ IF system_id \in DOMAIN systems
       THEN systems' = MapRemove(systems, system_id)
       ELSE UNCHANGED systems
    /\ last_call' = Call("remove", FALSE, "none", << >>, {})
    /\ UNCHANGED <<execution_order, dirty>>
    /\ UNCHANGED world_vars

\* SystemScheduler::remove
remove(system_id) ==
    /\ IF system_id \in DOMAIN systems
       THEN /\ systems' = MapRemove(systems, system_id)
            /\ dirty' = TRUE
       ELSE UNCHANGED <<systems, dirty>>
    /\ last_call' = Call("remove", FALSE, "none", << >>, {})
    /\ UNCHANGED execution_order
    /\ UNCHANGED world_vars

\* what the first step of execute_phase leaves as the cached order: a
\* recomputation when it is stale, else what it was
refreshed(order, sys) ==
    IF order.dirty THEN possible_orders(sys)
    ELSE {[execution_order |-> order.execution_order, dirty |-> FALSE,
           panicked |-> FALSE]}

\* SystemScheduler::execute_phase
execute_phase(phase) ==
    /\ \A id \in DOMAIN systems : systems[id].consecutive_failures < MaxFailures
    /\ \E r \in refreshed(Order(execution_order, dirty), systems) :
         /\ execution_order' = r.execution_order
         /\ dirty' = r.dirty
         /\ IF r.panicked
            THEN /\ last_call' = Call("execute_phase", TRUE, phase, << >>, {})
                 /\ UNCHANGED systems
            ELSE \E outs \in Outcomes(systems) :
                    LET ids == IF phase \in DOMAIN r.execution_order
                               THEN r.execution_order[phase] ELSE << >>
                        ran == run_each(ids, systems, << >>, {}, outs)
                    IN  /\ systems' = ran.systems
                        /\ last_call' = Call("execute_phase", FALSE, phase,
                                             ran.invoked, ran.failed)
    /\ UNCHANGED world_vars

(***************************************************************************)
(* A second scheduler that is fed the same calls as the first: the model   *)
(* keeps its cached order and stale flag, the rest of its state being that *)
(* of the first.                                                           *)
(***************************************************************************)
\* add on both schedulers
add_both(input) ==
    /\ add(input)
    /\ twin_order' = [twin_order EXCEPT !.dirty = (input.id \notin DOMAIN systems) \/ @]
    /\ UNCHANGED history

\* remove on both schedulers
remove_both(system_id) ==
    /\ remove(system_id)
    /\ twin_order' = [twin_order EXCEPT !.dirty = (system_id \in DOMAIN systems) \/ @]
    /\ UNCHANGED history

\* execute_phase on both schedulers
execute_phase_both(phase) ==
    /\ execute_phase(phase)
    /\ \E t \in refreshed(twin_order, systems) :
         twin_order' = Order(t.execution_order, t.dirty)
    /\ UNCHANGED history

(***************************************************************************)
(* The scheduler with a record of what each System::run call of a system   *)
(* did since the system was registered: "ok" and "err" for an invocation   *)
(* of the behaviour that succeeded or failed, "skipped" for the early      *)
(* return of a disabled system.                                            *)
(***************************************************************************)
\* the record of one execute_phase call, appended to the histories
RECURSIVE logged(_, _, _, _)
logged(ids, h, sys, call) ==
    IF ids = << >> THEN h
    ELSE LET id == Head(ids)
             what == IF ~sys[id].enabled THEN "skipped"
                     ELSE IF id \in call.failed THEN "err" ELSE "ok"
         IN  logged(Tail(ids),
                    IF id \in DOMAIN sys THEN [h EXCEPT ![id] = Append(@, what)] ELSE h,
                    sys, call)

\* add, recorded
add_logged(input) ==
    /\ add(input)
    /\ history' = IF input.id \in DOMAIN systems THEN history
                  ELSE MapPut(history, input.id, << >>)
    /\ UNCHANGED twin_order

\* remove, recorded
remove_logged(system_id) ==
    /\ remove(system_id)
    /\ history' = MapRemove(history, system_id)
    /\ UNCHANGED twin_order

\* execute_phase, recorded
execute_phase_logged(phase) ==
    /\ \A id \in DOMAIN history : Len(history[id]) < MaxHistory
    /\ execute_phase(phase)
    /\ history' = IF last_call'.panicked \/ phase \notin DOMAIN execution_order'
                  THEN history
                  ELSE logged(execution_order'[phase], history, systems, last_call')
    /\ UNCHANGED twin_order

(***************************************************************************)
(* The scheduler with the failure contexts its systems hand to their       *)
(* handlers: history keeps, for each registered system, the phase its set  *)
(* of phases iterates first, fixed when the system is built, and the       *)
(* context of its failure in the last execute_phase.                       *)
(***************************************************************************)
\* add of a system whose set of phases iterates first first
add_reported(input, first) ==
    /\ first \in first_phases(system_new(input))
    /\ add(input)
    /\ history' = IF input.id \in DOMAIN systems THEN history
                  ELSE MapPut(history, input.id, [first |-> first, ctx |-> NoContext])
    /\ UNCHANGED twin_order

\* remove, the system's record dropped
remove_reported(system_id) ==
    /\ remove(system_id)
    /\ history' = MapRemove(history, system_id)
    /\ UNCHANGED twin_order

\* execute_phase, with the contexts of the failures in it
execute_phase_reported(phase) ==
    /\ execute_phase(phase)
    /\ history' = [id \in DOMAIN history |->
                      [history[id] EXCEPT
                          !.ctx = IF id \in last_call'.failed
                                  THEN error_ctx(id, systems[id], history[id].first)
                                  ELSE NoContext]]
    /\ UNCHANGED twin_order

(***************************************************************************)
(* The state after construction: World::new, SystemScheduler::new and the  *)
(* initial value of the id counter.                                        *)
(***************************************************************************)
Init ==
    /\ NEXT_ENTITY_ID = 1
    /\ entities = {}
    /\ components = EmptyMap
    /\ component_index = EmptyMap
    /\ queries = EmptyMap
    /\ ret = Returned(FALSE)
    /\ systems = EmptyMap
    /\ execution_order = EmptyMap
    /\ dirty = TRUE
    /\ last_call = Call("new", FALSE, "none", << >>, {})
    /\ twin_order = Order(EmptyMap, TRUE)
    /\ history = EmptyMap

(***************************************************************************)
(* A World under its calls.                                                *)
(***************************************************************************)
\* the descriptors the World is queried with: one without A, and an empty one
WorldDescriptors ==
    {Descriptor(<< >>, << >>, <<A>>),
     Descriptor(<< >>, << >>, << >>)}

NextWorld ==
    \/ create_entity
    \/ \E id \in EntityIds : create_entity_with_id(id)
    \/ \E id \in EntityIds : destroy_entity(id)
    \/ \E id \in EntityIds, c \in ComponentIds : add_component(id, c, "p")
    \/ \E id \in EntityIds, c \in ComponentIds : remove_component(id, c)
    \/ \E d \in WorldDescriptors : query(d)
    \/ clear
    \/ \E start \in EntityIds : reset_entity_id_counter(start)

Spec == Init /\ [][NextWorld]_vars

\* the calls of a World that change it
WorldUpdates ==
    \/ create_entity
    \/ \E id \in EntityIds : create_entity_with_id(id)
    \/ \E id \in EntityIds : destroy_entity(id)
    \/ \E id \in EntityIds, c \in ComponentIds : add_component(id, c, "p")
    \/ \E id \in EntityIds, c \in ComponentIds : remove_component(id, c)
    \/ clear
    \/ \E start \in EntityIds : reset_entity_id_counter(start)

\* descriptors with an all clause only: the types A and B, and the one type
\* whose id is "A,B"
AllDescriptors ==
    {Descriptor(<<A, B>>, << >>, << >>),
     Descriptor(<<AB>>, << >>, << >>)}

NextAll ==
    \/ WorldUpdates
    \/ \E d \in AllDescriptors : query(d)

SpecAll == Init /\ [][NextAll]_vars

\* descriptors with an any clause only: the types A and B, and the one type
\* whose id is "A,B"
AnyDescriptors ==
    {Descriptor(<< >>, <<A, B>>, << >>),
     Descriptor(<< >>, <<AB>>, << >>)}

NextAny ==
    \/ WorldUpdates
    \/ \E d \in AnyDescriptors : query(d)

SpecAny == Init /\ [][NextAny]_vars

\* the calls of a World whose caller gives the entity ids
WorldCallsWithIds ==
    \/ \E id \in EntityIds : create_entity_with_id(id)
    \/ \E id \in EntityIds : destroy_entity(id)
    \/ \E id \in EntityIds, c \in ComponentIds : add_component(id, c, "p")
    \/ \E id \in EntityIds, c \in ComponentIds : remove_component(id, c)
    \/ clear

\* the descriptors of the cached queries: A and B in both orders, and an
\* empty one
CacheDescriptors ==
    {Descriptor(<<A, B>>, << >>, << >>),
     Descriptor(<<B, A>>, << >>, << >>),
     Descriptor(<< >>, << >>, << >>)}

NextCache ==
    \/ \E id \in EntityIds : create_entity_with_id(id)
    \/ \E id \in EntityIds : destroy_entity(id)
    \/ \E id \in EntityIds, c \in ComponentIds : add_component(id, c, "p")
    \/ clear
    \/ \E d \in CacheDescriptors : query(d)

SpecCache == Init /\ [][NextCache]_vars

\* the descriptor of a cached query whose key holds one of the two types
FrameDescriptors == {Descriptor(<<A>>, << >>, << >>)}

NextFrame ==
    \/ WorldCallsWithIds
    \/ \E d \in FrameDescriptors : query(d)

SpecFrame == Init /\ [][NextFrame]_vars

\* the type ids asked for: A and B, and one no component has
AskedIds == {A, B, AB}

NextAbsent ==
    \/ WorldCallsWithIds
    \/ \E d \in FrameDescriptors : query(d)
    \/ \E c \in AskedIds : get_entities_with_component_call(c)

SpecAbsent == Init /\ [][NextAbsent]_vars

(***************************************************************************)
(* A component store under direct calls.                                   *)
(***************************************************************************)
NextStore ==
    \/ \E id \in EntityIds, c \in ComponentIds, v \in Payloads :
          store_add_call(id, c, v)
    \/ \E id \in EntityIds, c \in ComponentIds : store_remove_call(id, c)
    \/ \E id \in EntityIds : store_remove_all_components_call(id)
    \/ store_clear_call

SpecStore == Init /\ [][NextStore]_vars

(***************************************************************************)
(* A scheduler under its calls.                                            *)
(***************************************************************************)
SystemIds == {"a", "b", "c"}

\* the two systems registered to exercise the ordering
OrderIds == {"a", "b"}

\* systems registered to exercise the ordering: any priorities, either of two
\* phases, the other system in run_before or run_after or both or neither;
\* behaviours that succeed
OrderInputs ==
    {input \in [id : OrderIds, phases : {{"Update"}, {"Init"}}, priority : {0, 1},
                run_before : SUBSET OrderIds, run_after : SUBSET OrderIds,
                on_error : {"none"}, behaviour : {"ok"}] :
        /\ input.id \notin input.run_before
        /\ input.id \notin input.run_after}

NextOrder ==
    \/ \E input \in OrderInputs : add(input) /\ UNCHANGED <<twin_order, history>>
    \/ \E id \in OrderIds : remove(id) /\ UNCHANGED <<twin_order, history>>
    \/ \E phase \in {"Init", "Update"} :
          execute_phase(phase) /\ UNCHANGED <<twin_order, history>>

SpecOrder == Init /\ [][NextOrder]_vars

\* the handlers and behaviours systems are registered with
Handlers == {"none", "ignore", "disable", "retry"}

Behaviours == {"ok", "fail", "flaky"}

\* systems registered to exercise the failure policy: two systems of one phase
FailInputs ==
    [id : {"a", "b"}, phases : {{"Update"}}, priority : {0},
     run_before : {{}}, run_after : {{}},
     on_error : Handlers, behaviour : Behaviours]

NextFail ==
    \/ \E input \in FailInputs : add(input) /\ UNCHANGED <<twin_order, history>>
    \/ \E id \in {"a", "b"} : remove(id) /\ UNCHANGED <<twin_order, history>>
    \/ \E phase \in {"Init", "Update"} :
          execute_phase(phase) /\ UNCHANGED <<twin_order, history>>

SpecFail == Init /\ [][NextFail]_vars

\* one system of one phase, its runs recorded
HistoryInputs ==
    [id : {"a"}, phases : {{"Update"}}, priority : {0},
     run_before : {{}}, run_after : {{}},
     on_error : Handlers, behaviour : Behaviours]

NextHistory ==
    \/ \E input \in HistoryInputs : add_logged(input)
    \/ remove_logged("a")
    \/ \E phase \in {"Init", "Update"} : execute_phase_logged(phase)

SpecHistory == Init /\ [][NextHistory]_vars

\* systems registered with two schedulers: any priorities, no predecessor or
\* both other systems as predecessors
TwinInputs ==
    {input \in [id : SystemIds, phases : {{"Update"}}, priority : {0, 1},
                run_before : {{}}, run_after : SUBSET SystemIds,
                on_error : {"none"}, behaviour : {"ok"}] :
        input.run_after \in {{}, SystemIds \ {input.id}}}

NextTwin ==
    \/ \E input \in TwinInputs : add_both(input)
    \/ \E id \in SystemIds : remove_both(id)
    \/ execute_phase_both("Update")

SpecTwin == Init /\ [][NextTwin]_vars

\* systems registered to exercise the failure context: of one phase or of
\* two, with the default handler, behaviours that fail always or at times
ContextInputs ==
    [id : {"a", "b"}, phases : {{"Update"}, {"Init", "Update"}}, priority : {0},
     run_before : {{}}, run_after : {{}},
     on_error : {"none"}, behaviour : {"fail", "flaky"}]

NextContext ==
    \/ \E input \in ContextInputs, first \in {"Init", "Update"} :
          add_reported(input, first)
    \/ \E id \in {"a", "b"} : remove_reported(id)
    \/ \E phase \in {"Init", "Update"} : execute_phase_reported(phase)

SpecContext == Init /\ [][NextContext]_vars

(***************************************************************************)
(* Properties of the World and of the component store.                     *)
(***************************************************************************)
\* the result an uncached evaluation of a descriptor gives on the store
FreshResults(descriptor) == query_compute(query_filters(descriptor), TheStore)

\* C1: World.query(d) returns what a fresh, uncached evaluation of d on the
\* current state returns: the cache never serves a stale result.
C1_QueryNeverStale ==
    (ret.op = "query" /\ ~ret.panicked)
    => (ret.value[ret.op] = FreshResults(ret.arg[ret.op]))

\* all the entity ids and type ids the store mentions
StoreEntities ==
    EntityIds \cup DOMAIN components
    \cup UNION {component_index[c] : c \in DOMAIN component_index}

StoreComponentIds ==
    ComponentIds \cup DOMAIN component_index
    \cup UNION {DOMAIN components[e] : e \in DOMAIN components}

\* C2: an entity is in the reverse-index set of a type exactly when its
\* forward map has a non-empty list for the type.
C2_IndexMatchesForwardMap ==
    \A e \in StoreEntities, c \in StoreComponentIds :
        (c \in DOMAIN component_index /\ e \in component_index[c])
        <=> (/\ e \in DOMAIN components
             /\ c \in DOMAIN components[e]
             /\ components[e][c] # << >>)

\* C2's case: removals have emptied one entity's map and left another entity
\* holding two types
C2_Witness ==
    \E e1, e2 \in EntityIds :
        /\ e1 \in DOMAIN components /\ DOMAIN components[e1] = {}
        /\ e2 \in DOMAIN components /\ DOMAIN components[e2] = ComponentIds

\* C3: a query for {none: [A]} returns exactly the live entities of the World
\* that hold no instance of A.
C3_NoneQueryIsLiveWithoutA ==
    (ret.op = "query" /\ ret.arg[ret.op] = Descriptor(<< >>, << >>, <<A>>))
    => (ret.value[ret.op] = {e \in entities : ~store_has(TheStore, e, A)})

\* C4: create_entity returns an id that was not live, and leaves the live
\* entities and their components as they were.
C4_CreateEntityFresh ==
    [][create_entity =>
        /\ ret'.value[ret'.op] \notin entities
        /\ entities' = entities \cup {ret'.value[ret'.op]}
        /\ UNCHANGED <<components, component_index>>]_vars

(***************************************************************************)
(* Properties of the scheduler's order.                                    *)
(***************************************************************************)
\* the position of an id in an order that holds it
IndexOf(order, id) == CHOOSE i \in 1..Len(order) : order[i] = id

\* x stands before y in an order that holds both
Precedes(order, x, y) ==
    (x \in Range(order) /\ y \in Range(order)) => IndexOf(order, x) < IndexOf(order, y)

\* C5: in every computed phase order, a system X that lists Y in its
\* run_before set stands before Y, X and Y both registered in that phase
C5_RunBeforeOrdered ==
    ~dirty =>
        \A phase \in DOMAIN execution_order : \A x, y \in DOMAIN systems :
            (/\ phase \in systems[x].phases /\ phase \in systems[y].phases
             /\ y \in systems[x].run_before)
            => Precedes(execution_order[phase], x, y)

\* C6: in every computed phase order, a system X that lists Y in its run_after
\* set stands after Y, X and Y both registered in that phase
C6_RunAfterOrdered ==
    ~dirty =>
        \A phase \in DOMAIN execution_order : \A x, y \in DOMAIN systems :
            (/\ phase \in systems[x].phases /\ phase \in systems[y].phases
             /\ y \in systems[x].run_after)
            => Precedes(execution_order[phase], y, x)

\* C7: two schedulers given the same sequence of add and remove calls with
\* identical parameters hold the same per-phase order once both have computed it
C7_SameOrderOnBoth ==
    (~dirty /\ ~twin_order.dirty) => (twin_order.execution_order = execution_order)

(***************************************************************************)
(* Properties of the failure policy.                                       *)
(***************************************************************************)
\* the invocations of a history: its entries but the early returns
Runs(h) == SelectSeq(h, LAMBDA what : what # "skipped")

\* the number of failures a sequence of invocations ends with
RECURSIVE TrailingErrs(_)
TrailingErrs(h) ==
    IF h = << >> \/ h[Len(h)] # "err" THEN 0
    ELSE 1 + TrailingErrs(SubSeq(h, 1, Len(h) - 1))

\* the systems that always fail and have no handler of their own
AlwaysFailing ==
    {id \in DOMAIN systems :
        systems[id].behaviour = "fail" /\ systems[id].on_error = "none"}

\* C8: a system with the default handler whose behaviour fails every time is
\* invoked and fails at its first three calls, enabled after the first two
\* and disabled by the third, and every later call returns without invoking
\* it, without a crash and without changing it
C8_DisabledAtThirdFailure ==
    \A id \in AlwaysFailing :
        /\ \A i \in 1..Len(history[id]) :
              history[id][i] = IF i <= 3 THEN "err" ELSE "skipped"
        /\ systems[id].enabled <=> Len(history[id]) < 3
        /\ systems[id].consecutive_failures = Len(Runs(history[id]))
        /\ (last_call.op = "execute_phase") => ~last_call.panicked

C8_Witness ==
    \E id \in AlwaysFailing :
        /\ Len(history[id]) >= 4
        /\ history[id][4] = "skipped"
        /\ ~systems[id].enabled
        /\ last_call = Call("execute_phase", FALSE, "Update", << >>, {})

\* C9: a successful invocation resets the failure counter to zero, so the
\* counter is the number of failures since the last success, and the default
\* handler has disabled a system exactly when that number has reached three
C9_SuccessResetsCounter ==
    \A id \in DOMAIN systems :
        /\ systems[id].consecutive_failures = TrailingErrs(Runs(history[id]))
        /\ (systems[id].on_error = "none")
           => (systems[id].enabled <=> TrailingErrs(Runs(history[id])) < 3)

C9_Witness ==
    \E id \in DOMAIN systems :
        /\ systems[id].on_error = "none"
        /\ history[id] = <<"err", "err", "ok", "err", "err">>
        /\ systems[id].enabled
        /\ systems[id].consecutive_failures = 2

\* two registered systems of a common phase, each in the other's run_after set
MutualRunAfter(a, b) ==
    /\ a \in DOMAIN systems /\ b \in DOMAIN systems /\ a # b
    /\ systems[a].phases \cap systems[b].phases # {}
    /\ b \in systems[a].run_after
    /\ a \in systems[b].run_after

\* C10: while two registered systems of a common phase name each other in
\* run_after, every execute_phase fails in the computation of the order with
\* the fatal cycle error, and leaves no order that holds either system
C10_CycleIsFatal ==
    [][\A a, b \in SystemIds :
          (MutualRunAfter(a, b) /\ last_call'.op = "execute_phase")
          => /\ last_call'.panicked
             /\ dirty'
             /\ UNCHANGED systems
             /\ \A phase \in DOMAIN execution_order' :
                   {a, b} \cap Range(execution_order'[phase]) = {}]_vars

C10_Witness ==
    /\ \E a, b \in SystemIds : MutualRunAfter(a, b)
    /\ last_call = Call("execute_phase", TRUE, "Update", << >>, {})

(***************************************************************************)
(* Properties of the results of queries.                                   *)
(***************************************************************************)
\* entity e is live and holds at least one instance of type c
Holds(e, c) ==
    /\ e \in entities
    /\ e \in DOMAIN components
    /\ c \in DOMAIN components[e]
    /\ Len(components[e][c]) >= 1

\* C11: for a descriptor with an all clause only, World::query returns exactly
\* the live entities that hold at least one instance of every listed type
C11_AllQueryIsHoldersOfEvery ==
    (/\ ret.op = "query"
     /\ ret.arg[ret.op].all # << >> /\ ret.arg[ret.op].any = << >> /\ ret.arg[ret.op].none = << >>)
    => (ret.value[ret.op] = {e \in EntityIds : \A c \in Range(ret.arg[ret.op].all) : Holds(e, c)})

\* C12: for the descriptor {any: [A, B]}, World::query returns exactly the
\* union of the live holders of A and the live holders of B
C12_AnyQueryIsUnionOfHolders ==
    (ret.op = "query" /\ ret.arg[ret.op] = Descriptor(<< >>, <<A, B>>, << >>))
    => (ret.value[ret.op] = {e \in EntityIds : Holds(e, A)} \cup {e \in EntityIds : Holds(e, B)})

(***************************************************************************)
(* Properties of the calls of the component store.                         *)
(***************************************************************************)
\* the store after the step
TheStoreAfter == Store(components', component_index')

\* C13, as stated: after add(e, c), c of type T, has(e, T) is true and the
\* first-instance lookup of (e, T) returns a value equal to c
C13_GetFirstIsTheAdded ==
    [][\A e \in EntityIds, T \in ComponentIds, c \in Payloads :
          (ret'.op = "call" /\ store_add_call(e, T, c))
          => /\ store_has(TheStoreAfter, e, T)
             /\ store_get(TheStoreAfter, e, T) = Found(c)]_vars

\* C13, amended: after add(e, c), c of type T, has(e, T) is true and the
\* first-instance lookup of (e, T) returns a value equal to c when e held no
\* instance of T before the call, and what it returned before the call otherwise
C13_GetFirstAfterAdd ==
    [][\A e \in EntityIds, T \in ComponentIds, c \in Payloads :
          (ret'.op = "call" /\ store_add_call(e, T, c))
          => /\ store_has(TheStoreAfter, e, T)
             /\ store_get(TheStoreAfter, e, T) =
                   IF store_has(TheStore, e, T) THEN store_get(TheStore, e, T)
                   ELSE Found(c)]_vars

C13_Witness ==
    \E e \in EntityIds, T \in ComponentIds :
        /\ store_has(TheStore, e, T)
        /\ Len(components[e][T]) = 2
        /\ store_get(TheStore, e, T) = Found("p")
        /\ components[e][T][2] = "q"

\* C14: remove(e, T) returns true exactly when e held at least one instance
\* of T, and takes the whole list out: afterwards has(e, T) is false, no
\* instance of T is left on e and e is not among the entities with T
C14_RemoveTakesWholeList ==
    [][\A e \in EntityIds, T \in ComponentIds :
          (ret'.op = "remove" /\ store_remove_call(e, T))
          => /\ ret'.value[ret'.op] = (Len(store_get_all_by_type(TheStore, e, T)) >= 1)
             /\ ~store_has(TheStoreAfter, e, T)
             /\ store_get_all_by_type(TheStoreAfter, e, T) = << >>
             /\ e \notin get_entities_with_component(TheStoreAfter, T)]_vars

C14_Witness ==
    /\ ret.op = "remove"
    /\ ret.value[ret.op] = TRUE
    /\ Len(ret.arg[ret.op]) >= 2
    /\ \E e \in DOMAIN components : DOMAIN components[e] = {}

\* C16: add never deduplicates: every add(e, c), c of type T, appends c to
\* the list of (e, T) and leaves every other list as it was, so that the list
\* holds the instances added since the last remove in insertion order,
\* get_all_by_type returns them in that order and get returns the first
C16_AddAppends ==
    [][\A e \in EntityIds, T \in ComponentIds, c \in Payloads :
          (ret'.op = "call" /\ store_add_call(e, T, c))
          => /\ store_get_all_by_type(TheStoreAfter, e, T) =
                   Append(store_get_all_by_type(TheStore, e, T), c)
             /\ store_get(TheStoreAfter, e, T) =
                   Found(Head(Append(store_get_all_by_type(TheStore, e, T), c)))
             /\ \A e2 \in EntityIds, T2 \in ComponentIds :
                   (e2 # e \/ T2 # T)
                   => store_get_all_by_type(TheStoreAfter, e2, T2) =
                         store_get_all_by_type(TheStore, e2, T2)]_vars

C16_Witness ==
    \E e \in EntityIds, T \in ComponentIds :
        /\ store_get_all_by_type(TheStore, e, T) = <<"q", "p", "p">>
        /\ store_get(TheStore, e, T) = Found("q")

(***************************************************************************)
(* Properties of the calls of the World.                                   *)
(***************************************************************************)
\* C15: destroy_entity(e) on a live entity returns true, makes e non-live and
\* removes its components, so that for every type T has(e, T) is false and e
\* is not among the entities with T; and no query returns an entity that is
\* not live
C15_DestroyRemovesEverything ==
    [][/\ \A e \in EntityIds :
             (ret'.op = "destroy_entity" /\ e \in entities /\ destroy_entity(e))
             => /\ ret'.value[ret'.op] = TRUE
                /\ e \notin entities'
                /\ e \notin store_get_all_entities(TheStoreAfter)
                /\ \A T \in ComponentIds :
                      /\ ~store_has(TheStoreAfter, e, T)
                      /\ e \notin get_entities_with_component(TheStoreAfter, T)
       /\ (ret'.op = "query") => (ret'.value[ret'.op] \subseteq entities')]_vars

C15_Witness ==
    /\ ret.op = "destroy_entity"
    /\ ret.value[ret.op] = TRUE
    /\ \E e \in EntityIds, k \in DOMAIN queries :
          /\ e \notin entities
          /\ queries[k].dirty
          /\ e \in queries[k].cached_results.set

(***************************************************************************)
(* Properties of execute_phase under failing systems.                      *)
(***************************************************************************)
\* C17: a failure returned by a system's behaviour never makes execute_phase
\* fail: the call returns normally, having invoked every enabled system of the
\* phase's order, in order, and counted the failure of each that failed
C17_FailuresAreAbsorbed ==
    [][(last_call'.op = "execute_phase")
       => /\ ~last_call'.panicked
          /\ last_call'.invoked =
                SelectSeq(execution_order'[last_call'.phase],
                          LAMBDA id : id \in DOMAIN systems /\ systems[id].enabled)
          /\ \A id \in last_call'.failed :
                /\ id \in Range(last_call'.invoked)
                /\ systems'[id].consecutive_failures =
                      systems[id].consecutive_failures + 1]_vars

C17_Witness ==
    /\ last_call.op = "execute_phase"
    /\ ~last_call.panicked
    /\ Len(last_call.invoked) = 2
    /\ last_call.invoked[1] \in last_call.failed
    /\ ~systems[last_call.invoked[1]].enabled
    /\ last_call.invoked[2] \notin last_call.failed

\* C18: a system that the error policy has disabled stays disabled while it
\* is registered: no scheduler call changes it, and no execute_phase invokes
\* its behaviour
C18_DisabledStaysDisabled ==
    [][\A id \in DOMAIN systems \cap DOMAIN systems' :
          ~systems[id].enabled
          => /\ systems'[id] = systems[id]
             /\ (last_call'.op = "execute_phase")
                => id \notin Range(last_call'.invoked)]_vars

C18_Witness ==
    \E id \in DOMAIN systems :
        /\ ~systems[id].enabled
        /\ systems[id].on_error = "disable"
        /\ systems[id].consecutive_failures = 1
        /\ ~dirty
        /\ id \in Range(execution_order["Update"])
        /\ last_call.op = "execute_phase"
        /\ last_call.phase = "Update"
        /\ Len(last_call.invoked) = 1
        /\ id \notin Range(last_call.invoked)

\* C19: create_entity_with_id(id) for a live id panics and leaves the entity
\* table, the component store and the query cache, results and dirty flags,
\* as they were; for an id that is not live it makes that id live and changes
\* no other entity and no component
C19_CreateWithIdChecksLiveness ==
    [][\A id \in EntityIds :
          (ret'.op = "create_entity_with_id" /\ create_entity_with_id(id))
          => IF id \in entities
             THEN /\ ret'.panicked
                  /\ UNCHANGED <<entities, components, component_index, queries>>
             ELSE /\ ~ret'.panicked
                  /\ entities' = entities \cup {id}
                  /\ UNCHANGED <<components, component_index>>]_vars

C19_Witness ==
    /\ ret.op = "create_entity_with_id"
    /\ ret.panicked
    /\ components # EmptyMap
    /\ \E k \in DOMAIN queries :
          /\ ~queries[k].dirty
          /\ queries[k].cached_results.some
          /\ queries[k].cached_results.set # {}

(***************************************************************************)
(* Properties of the registration of systems.                              *)
(***************************************************************************)
\* C20: SystemScheduler::add of a system whose id is registered panics and
\* leaves the scheduler as it was: the registered system, the cached order
\* and its stale flag; with an id that is not registered it registers the
\* system and marks the order stale
C20_AddChecksDuplicate ==
    [][\A input \in OrderInputs :
          (last_call'.op = "add" /\ add(input))
          => IF input.id \in DOMAIN systems
             THEN /\ last_call'.panicked
                  /\ UNCHANGED <<systems, execution_order, dirty>>
             ELSE /\ ~last_call'.panicked
                  /\ DOMAIN systems' = DOMAIN systems \cup {input.id}
                  /\ systems'[input.id] = system_new(input)
                  /\ dirty']_vars

C20_Witness ==
    /\ last_call.op = "add"
    /\ last_call.panicked
    /\ ~dirty
    /\ DOMAIN systems = OrderIds
    /\ \E phase \in DOMAIN execution_order : Len(execution_order[phase]) = 2

(***************************************************************************)
(* Properties of the query cache.                                          *)
(***************************************************************************)
\* a descriptor without a clause
EmptyDescriptor == Descriptor(<< >>, << >>, << >>)

\* C21: a query from a descriptor whose three lists are empty is a fatal
\* usage error: Query::new panics on it, World::query panics and leaves the
\* cache without an entry for it, the World as it was; a query from any
\* other descriptor returns, its entry in the cache
C21_EmptyDescriptorIsFatal ==
    [][(ret'.op = "query")
       => IF ret'.arg[ret'.op] = EmptyDescriptor
          THEN /\ query_new_panics(ret'.arg[ret'.op])
               /\ ret'.panicked
               /\ get_key(ret'.arg[ret'.op]) \notin DOMAIN queries'
               /\ UNCHANGED <<queries, entities, components, component_index>>
          ELSE /\ ~ret'.panicked
               /\ get_key(ret'.arg[ret'.op]) \in DOMAIN queries']_vars

C21_Witness ==
    /\ ret.op = "query"
    /\ ret.panicked
    /\ ret.arg[ret.op] = EmptyDescriptor
    /\ queries # EmptyMap
    /\ get_key(EmptyDescriptor) \notin DOMAIN queries

\* a list back to front
Reverse(list) == [i \in 1..Len(list) |-> list[Len(list) + 1 - i]]

\* the descriptor with the same component sets, each listed back to front
Reordered(d) == Descriptor(Reverse(d.all), Reverse(d.any), Reverse(d.none))

\* the lists of distinct component ids a clause is given
Clauses == {<< >>, <<A>>, <<B>>, <<A, B>>, <<B, A>>}

\* C22: two descriptors that list the same components in another order,
\* in all, any or none, have the same cache key, and a query with one right
\* after a query with the other is answered by the same cached query: the
\* cache keeps its entries, results and dirty flags, and the answer is the same
C22_OrderInsensitiveCache ==
    /\ \A all \in Clauses, any \in Clauses, none \in Clauses :
          get_key(Reordered(Descriptor(all, any, none)))
              = get_key(Descriptor(all, any, none))
    /\ [][(/\ ret.op = "query" /\ ~ret.panicked
            /\ ret'.op = "query"
            /\ ret'.arg[ret'.op] = Reordered(ret.arg[ret.op]))
           => /\ ~ret'.panicked
              /\ queries' = queries
              /\ ret'.value[ret'.op] = ret.value[ret.op]]_vars

\* a query with all:[B, A] answered from the query built for all:[A, B]
C22_Witness ==
    /\ ret.op = "query"
    /\ ~ret.panicked
    /\ ret.arg[ret.op] = Descriptor(<<B, A>>, << >>, << >>)
    /\ ret.value[ret.op] # {}
    /\ DOMAIN queries = {get_key(ret.arg[ret.op])}
    /\ queries[get_key(ret.arg[ret.op])].filters
           = query_filters(Descriptor(<<A, B>>, << >>, << >>))
    /\ queries[get_key(ret.arg[ret.op])].filters # query_filters(ret.arg[ret.op])

\* C23: a query repeated with the same descriptor, nothing done to the World
\* in between, returns the same set and leaves the cached result and the
\* dirty flag of every cached query as they were
C23_QueryIdempotent ==
    [][(/\ ret.op = "query" /\ ~ret.panicked
        /\ ret'.op = "query"
        /\ ret'.arg[ret'.op] = ret.arg[ret.op])
       => /\ ~ret'.panicked
          /\ ret'.value[ret'.op] = ret.value[ret.op]
          /\ queries' = queries]_vars

\* a query answered with a non-empty set that is the clean cached result
C23_Witness ==
    /\ ret.op = "query"
    /\ ~ret.panicked
    /\ ret.value[ret.op] # {}
    /\ get_key(ret.arg[ret.op]) \in DOMAIN queries
    /\ ~queries[get_key(ret.arg[ret.op])].dirty
    /\ queries[get_key(ret.arg[ret.op])].cached_results = Some(ret.value[ret.op])

(***************************************************************************)
(* Properties of the computed phase orders.                                *)
(***************************************************************************)
\* the registered systems that declare a phase
Declaring(phase) == {id \in DOMAIN systems : phase \in systems[id].phases}

\* how often an id stands in an order
Occurrences(order, id) == Cardinality({i \in 1..Len(order) : order[i] = id})

\* C24: every id in the computed order of a phase is that of a registered
\* system that declares the phase; a system registered for other phases only
\* is not in it, whoever names it in run_after, and is not invoked for it
C24_OrderHoldsOnlyDeclaring ==
    /\ ~dirty =>
          \A phase \in DOMAIN execution_order :
              Range(execution_order[phase]) \subseteq Declaring(phase)
    /\ (last_call.op = "execute_phase" /\ ~last_call.panicked)
       => Range(last_call.invoked) \subseteq Declaring(last_call.phase)

\* C25: once the order is computed without a cycle error, every registered
\* system that declares a phase stands exactly once in the order of that phase
C25_EveryDeclaringOnce ==
    ~dirty =>
        \A phase \in DOMAIN execution_order : \A id \in Declaring(phase) :
            Occurrences(execution_order[phase], id) = 1

\* the orders a computation from the registered systems yields without a
\* cycle error
ComputedOrders(sys) ==
    {o.execution_order : o \in {r \in possible_orders(sys) : ~r.panicked}}

\* C26: an execute_phase that gets to run systems runs them from an order
\* that is the one computed from the systems registered at the call: the
\* cached order is not stale, a removed system is not in it and is not
\* invoked, an added one is taken into it, and the systems run are those of
\* the phase's order, which the call computes at most once, before the first
C26_OrderIsCurrentWhenRun ==
    [][(last_call'.op = "execute_phase" /\ ~last_call'.panicked)
       => /\ ~dirty'
          /\ execution_order' \in ComputedOrders(systems)
          /\ ~dirty => execution_order' = execution_order
          /\ DOMAIN systems' = DOMAIN systems
          /\ Range(last_call'.invoked) \subseteq DOMAIN systems
          /\ Range(last_call'.invoked)
                = {id \in Range(execution_order'[last_call'.phase]) :
                      systems[id].enabled}]_vars

\* an execute_phase that recomputed the order and ran the one system left
C26_Witness ==
    /\ last_call.op = "execute_phase"
    /\ ~last_call.panicked
    /\ ~dirty
    /\ Len(last_call.invoked) = 1
    /\ Cardinality(DOMAIN systems) = 2
    /\ Cardinality(Declaring(last_call.phase)) = 1

\* C27: in a phase none of whose systems names a registered system in
\* run_after or run_before, a system of strictly higher priority stands
\* before every system of strictly lower priority
C27_PriorityDescending ==
    ~dirty =>
        \A phase \in DOMAIN execution_order :
            (\A id \in Declaring(phase) :
                (systems[id].run_after \cup systems[id].run_before)
                    \cap DOMAIN systems = {})
            => \A x, y \in Declaring(phase) :
                  systems[x].priority > systems[y].priority
                  => /\ x \in Range(execution_order[phase])
                     /\ y \in Range(execution_order[phase])
                     /\ IndexOf(execution_order[phase], x)
                            < IndexOf(execution_order[phase], y)

\* two systems of one phase without constraints, the higher priority first
C27_Witness ==
    /\ ~dirty
    /\ last_call.op = "execute_phase"
    /\ "Update" \in DOMAIN execution_order
    /\ Len(execution_order["Update"]) = 2
    /\ \A id \in Declaring("Update") :
          systems[id].run_after \cup systems[id].run_before = {}
    /\ systems[execution_order["Update"][1]].priority
           > systems[execution_order["Update"][2]].priority
    /\ last_call.invoked = execution_order["Update"]

(***************************************************************************)
(* What the calls of a World do to the cached queries.                     *)
(***************************************************************************)
\* the components of one type an entity holds in a store's forward map
ListOf(comps, entity_id, component_id) ==
    IF entity_id \in DOMAIN comps /\ component_id \in DOMAIN comps[entity_id]
    THEN comps[entity_id][component_id] ELSE << >>

\* a step that adds a component of the type or removes those an entity has:
\* an add_component or a remove_component that returns true
ComponentStep(component_id) ==
    /\ entities' = entities
    /\ ret'.op \in {"call", "remove_component"}
    /\ \E e \in EntityIds :
          ListOf(components', e, component_id) # ListOf(components, e, component_id)

\* a step that creates an entity or destroys a live one
EntityStep ==
    \/ ret'.op \in {"create_entity", "create_entity_with_id"} /\ ~ret'.panicked
    \/ ret'.op = "destroy_entity" /\ ret'.value[ret'.op]

\* C28: add_component and a remove_component that removes, of type T, mark
\* dirty every cached query whose key contains T and leave every other
\* cached query as it was, dirty flag and cached result; creating an entity
\* and destroying one mark every cached query dirty
C28_InvalidationByKey ==
    [][/\ \A T \in ComponentIds :
            ComponentStep(T)
            => /\ DOMAIN queries' = DOMAIN queries
               /\ \A k \in DOMAIN queries :
                     IF Contains(k, T)
                     THEN queries'[k] = [queries[k] EXCEPT !.dirty = TRUE]
                     ELSE queries'[k] = queries[k]
       /\ EntityStep
          => /\ DOMAIN queries' = DOMAIN queries
             /\ \A k \in DOMAIN queries :
                   queries'[k] = [queries[k] EXCEPT !.dirty = TRUE]]_vars

\* after a call on components, a component of type B held and the cached
\* query on A still clean, its result not empty
C28_Witness ==
    /\ ret.op = "call"
    /\ ~ret.panicked
    /\ \E e \in entities : ListOf(components, e, B) # << >>
    /\ \E k \in DOMAIN queries :
          /\ ~Contains(k, B)
          /\ ~queries[k].dirty
          /\ queries[k].cached_results.some
          /\ queries[k].cached_results.set # {}

(***************************************************************************)
(* The reverse index of the component store.                               *)
(***************************************************************************)
\* C29: the reverse index holds no type id with an empty entity set: remove
\* and remove_all_components drop the entry of a type with its last entity
C29_NoEmptyIndexEntry ==
    \A component_id \in DOMAIN component_index : component_index[component_id] # {}

\* a remove that returned true and left the index with one type only, an
\* entity's map emptied
C29_Witness ==
    /\ ret.op = "remove"
    /\ ret.value[ret.op]
    /\ Cardinality(DOMAIN component_index) = 1
    /\ \E e \in DOMAIN components : DOMAIN components[e] = {}
    /\ \E e \in DOMAIN components : DOMAIN components[e] # {}

(***************************************************************************)
(* The failure context.                                                    *)
(***************************************************************************)
\* C30: the context a system hands to its handler when its behaviour fails
\* in execute_phase(P) names the system, the phase P and the system's count
\* of consecutive failures after this one, whatever phases the system declares
C30_ContextNamesExecutingPhase ==
    (last_call.op = "execute_phase" /\ ~last_call.panicked)
    => \A id \in last_call.failed :
          history[id].ctx
              = [system_id |-> id, phase |-> phase_str(last_call.phase),
                 consecutive_failures |-> systems[id].consecutive_failures]

(***************************************************************************)
(* The component store of a World and its entities.                        *)
(***************************************************************************)
\* the entity ids that appear in the component store: the keys of the
\* forward map and the members of the sets of the reverse index
IdsInStore ==
    DOMAIN components
        \cup UNION {component_index[c] : c \in DOMAIN component_index}

\* C31: every entity id in the component store of a World, forward map or
\* reverse index, is that of a live entity: add_component refuses an id that
\* is not live, destroy_entity and clear take the components with the entity
C31_StoreHoldsLiveEntities == IdsInStore \subseteq entities

\* an add_component refused for an id that is not live, in a World whose
\* store holds components of another entity
C31_Witness ==
    /\ ret.op = "call"
    /\ ret.panicked
    /\ IdsInStore # {}
    /\ \E e \in IdsInStore : components[e] # EmptyMap
    /\ entities # EntityIds

(***************************************************************************)
(* Calls about what is not there.                                          *)
(***************************************************************************)
\* the entity table, the component store and the cached queries stay
WorldUnchanged == UNCHANGED <<entities, components, component_index, queries>>

\* C32: remove_component for an entity and a type of which the entity holds
\* no instance, and destroy_entity for an id that is not live, return false
\* and leave the entity table, the component store and the result and dirty
\* flag of every cached query as they were; get_entities_with_component for
\* a type id the index does not know returns the empty set and changes nothing
C32_AbsenceIsNoOp ==
    [][/\ (/\ ret'.op = "remove_component"
           /\ ListOf(components, ret'.arg[ret'.op][1], ret'.arg[ret'.op][2]) = << >>)
          => (~ret'.value[ret'.op] /\ ~ret'.panicked /\ WorldUnchanged)
       /\ (ret'.op = "destroy_entity" /\ ret'.arg[ret'.op] \notin entities)
          => (~ret'.value[ret'.op] /\ ~ret'.panicked /\ WorldUnchanged)
       /\ (/\ ret'.op = "get_entities_with_component"
           /\ ret'.arg[ret'.op] \notin DOMAIN component_index)
          => (ret'.value[ret'.op] = {} /\ ~ret'.panicked /\ WorldUnchanged)]_vars

\* a remove_component of type A that returned false for a live entity that
\* holds B, the cached query on A clean with a result that is not empty
C32_Witness ==
    /\ ret.op = "remove_component"
    /\ ~ret.value[ret.op]
    /\ ret.arg[ret.op][2] = A
    /\ ret.arg[ret.op][1] \in entities
    /\ ListOf(components, ret.arg[ret.op][1], B) # << >>
    /\ \E k \in DOMAIN queries :
          /\ Contains(k, A)
          /\ ~queries[k].dirty
          /\ queries[k].cached_results.some
          /\ queries[k].cached_results.set # {}

(***************************************************************************)
(* The keys of the query cache.                                            *)
(***************************************************************************)
\* the sets of type ids a descriptor gives for all, any and none
ClauseSets(d) == [all |-> Range(d.all), any |-> Range(d.any), none |-> Range(d.none)]

\* the type ids of the filters of one kind of a cached query
FilterSet(q, kind) ==
    UNION {Range(q.filters[i].components) :
               i \in {j \in DOMAIN q.filters : q.filters[j].kind = kind}}

\* the sets of type ids the cached query was built from
CachedSets(q) ==
    [all |-> FilterSet(q, "All"), any |-> FilterSet(q, "Any"),
     none |-> FilterSet(q, "None")]

\* C33: descriptors with different all, any or none sets of type ids have
\* different keys, whatever strings the ids are, and the cached query that
\* answers a descriptor was built from a descriptor with the same sets
C33_KeyTellsSetsApart ==
    /\ \A d1 \in AllDescriptors, d2 \in AllDescriptors :
          get_key(d1) = get_key(d2) => ClauseSets(d1) = ClauseSets(d2)
    /\ (ret.op = "query" /\ ~ret.panicked)
       => CachedSets(queries[get_key(ret.arg[ret.op])]) = ClauseSets(ret.arg[ret.op])

====
